---- MODULE Spec2Model ----
(***************************************************************************)
(* A model of the persistent rope of deadpixi/rope (Go).                   *)
(*                                                                         *)
(* A Rope is a struct value {content, length, depth, left, right}; left    *)
(* and right are *Rope.  The Go heap is modelled explicitly: heap is the   *)
(* sequence of Rope structs that have been allocated (a pointer is an      *)
(* index into it, 0 is nil).  Bytes are the integers 0..255, a string is a *)
(* sequence of bytes.  Every operator that can allocate takes the heap and *)
(* returns the new heap together with its result.                          *)
(*                                                                         *)
(* int is 64 bits wide (a 64-bit build).  TLC's integers are 32 bits wide, *)
(* so the Fibonacci table, whose entries pass 2^31, is kept in two limbs.  *)
(***************************************************************************)
EXTENDS Integers, Sequences, FiniteSets, TLC

VARIABLES
    heap,     \* the allocated Rope structs, by address
    ropes,    \* the rope values (roots) the caller has obtained so far
    last,     \* the last public call: its arguments and its results
    reader,   \* the Reader the caller holds: [rope, position]
    buf       \* the byte buffer the caller reads into

vars == <<heap, ropes, last, reader, buf>>

-----------------------------------------------------------------------------
(* Program constants (rope.go)                                             *)

maxDepth == 64
maxLeafSize == 4096
balanceFactor == 8

-----------------------------------------------------------------------------
(* Bounds of the model                                                     *)

\* how many rope values the caller holds at most
MaxRopes == 3
\* the longest input string has maxLeafSize + MaxOver bytes
MaxOver == 1
\* a Reader gets a buffer with which at most MaxReads reads reach the end
MaxReads == 3
\* the longest buffer handed to the ReadAt of rope_reader.go
MaxBuf == 3

-----------------------------------------------------------------------------
(* Helpers                                                                 *)

Min(a, b) == IF a < b THEN a ELSE b

Max(a, b) == IF a > b THEN a ELSE b

\* make([]byte, n): n zero bytes
Zeros(n) == [i \in 1..n |-> 0]

\* s[from:] and s[:to] of Go, on a sequence (0-based bounds, in range)
SliceFrom(s, from) == SubSeq(s, from + 1, Len(s))

SliceTo(s, to) == SubSeq(s, 1, to)

-----------------------------------------------------------------------------
(* 64-bit non-negative integers in two limbs: value = hi * Limb + lo       *)

Limb == 2^30

Wide(n) == [hi |-> n \div Limb, lo |-> n % Limb]

WideAdd(a, b) ==
    [hi |-> a.hi + b.hi + ((a.lo + b.lo) \div Limb), lo |-> (a.lo + b.lo) % Limb]

\* a <= n, for a wide a and an int n >= 0
WideLeqInt(a, n) == a.hi < n \div Limb \/ (a.hi = n \div Limb /\ a.lo <= n % Limb)

-----------------------------------------------------------------------------
(* The Fibonacci table built by init()                                     *)

RECURSIVE fibInit(_, _, _, _)
fibInit(c, first, second, table) ==
    IF ~(c < maxDepth + 3) THEN table
    ELSE IF c <= 1 THEN fibInit(c + 1, first, second, table \o <<Wide(c)>>)
    ELSE LET next == WideAdd(first, second)
         IN  fibInit(c + 1, second, next, table \o <<next>>)

\* fibonacci[i] of the source is fibonacci[i + 1] here
fibonacci == fibInit(0, Wide(0), Wide(1), <<>>)

-----------------------------------------------------------------------------
(* The Rope struct and its constructors                                    *)

Rope(content, length, depth, left, right) ==
    [content |-> content, length |-> length, depth |-> depth,
     left |-> left, right |-> right]

New == Rope(<<>>, 0, 0, 0, 0)

NewString(s) == Rope(s, Len(s), 0, 0, 0)

Length(rope) == rope.length

isLeaf(rope) == rope.left = 0

abs(a) == IF a < 0 THEN -a ELSE a

isBalanced(rope) ==
    IF rope.depth >= Len(fibonacci) - 2 THEN FALSE
    ELSE IF isLeaf(rope) THEN TRUE
    ELSE WideLeqInt(fibonacci[rope.depth + 2 + 1], rope.length)

\* rope.walk(callback) with a callback that collects the leaves: the leaves
\* in the order walk visits them
RECURSIVE walk(_, _)
walk(h, rope) ==
    IF isLeaf(rope) THEN <<rope>>
    ELSE walk(h, h[rope.left]) \o walk(h, h[rope.right])

RECURSIVE WriteStrings(_)
WriteStrings(leaves) ==
    IF leaves = <<>> THEN <<>>
    ELSE leaves[1].content \o WriteStrings(Tail(leaves))

String(h, rope) ==
    IF isLeaf(rope) THEN rope.content ELSE WriteStrings(walk(h, rope))

RECURSIVE leafForOffset(_, _, _)

\* leafForOffset going into the right child with the offset it was given
leafForOffsetNoAdjust(h, rope, at) ==
    IF isLeaf(rope) THEN [leaf |-> rope, at |-> at]
    ELSE IF at < h[rope.left].length THEN leafForOffset(h, h[rope.left], at)
    ELSE leafForOffset(h, h[rope.right], at)

leafForOffset(h, rope, at) ==
    IF isLeaf(rope) THEN [leaf |-> rope, at |-> at]
    ELSE IF at < h[rope.left].length THEN leafForOffset(h, h[rope.left], at)
    ELSE leafForOffset(h, h[rope.right], at - h[rope.left].length)

-----------------------------------------------------------------------------
(* Append, Rebalance, merge: each returns [h |-> heap, v |-> rope]          *)

RECURSIVE RopeAppend(_, _, _)
RECURSIVE Rebalance(_, _)
RECURSIVE rebalanceIfNeeded(_, _)
RECURSIVE merge(_, _, _, _)

\* Append made destructive: appending a leaf to a concat node grows the right
\* child of the node in place.
RopeAppendInPlace(h, rope, other) ==
    IF rope.length = 0 THEN [h |-> h, v |-> other]
    ELSE IF other.length = 0 THEN [h |-> h, v |-> rope]
    ELSE IF rope.length + other.length <= maxLeafSize
    THEN [h |-> h, v |-> NewString(String(h, rope) \o String(h, other))]
    ELSE IF ~isLeaf(rope) /\ isLeaf(other)
    THEN LET a == RopeAppend(h, h[rope.right], other)
         IN  [h |-> [a.h EXCEPT ![rope.right] = a.v],
              v |-> Rope(<<>>, rope.length + other.length,
                         Max(h[rope.left].depth, a.v.depth) + 1,
                         rope.left, rope.right)]
    ELSE LET h1 == h \o <<rope, other>>
         IN  rebalanceIfNeeded(h1,
                 Rope(<<>>, rope.length + other.length,
                      Max(rope.depth, other.depth) + 1, Len(h) + 1, Len(h) + 2))

\* Append with the children of the new concat node the wrong way round
RopeAppendSwapped(h, rope, other) ==
    IF rope.length = 0 THEN [h |-> h, v |-> other]
    ELSE IF other.length = 0 THEN [h |-> h, v |-> rope]
    ELSE IF rope.length + other.length <= maxLeafSize
    THEN [h |-> h, v |-> NewString(String(h, rope) \o String(h, other))]
    ELSE LET h1 == h \o <<rope, other>>
         IN  rebalanceIfNeeded(h1,
                 Rope(<<>>, rope.length + other.length,
                      Max(rope.depth, other.depth) + 1, Len(h) + 2, Len(h) + 1))

\* Append that hangs an empty argument under a new concat node
RopeAppendKeepsEmpty(h, rope, other) ==
    IF rope.length = 0 THEN [h |-> h, v |-> other]
    ELSE IF rope.length + other.length <= maxLeafSize
    THEN [h |-> h, v |-> NewString(String(h, rope) \o String(h, other))]
    ELSE LET h1 == h \o <<rope, other>>
         IN  rebalanceIfNeeded(h1,
                 Rope(<<>>, rope.length + other.length,
                      Max(rope.depth, other.depth) + 1, Len(h) + 1, Len(h) + 2))

\* Rope.Append (Append is taken by Sequences).  &rope and &other are two
\* fresh heap cells holding copies of the two operands.
RopeAppend(h, rope, other) ==
    IF rope.length = 0 THEN [h |-> h, v |-> other]
    ELSE IF other.length = 0 THEN [h |-> h, v |-> rope]
    ELSE IF rope.length + other.length <= maxLeafSize
    THEN [h |-> h, v |-> NewString(String(h, rope) \o String(h, other))]
    ELSE LET depth == IF other.depth > rope.depth THEN other.depth ELSE rope.depth
             h1 == h \o <<rope, other>>
         IN  rebalanceIfNeeded(h1,
                 Rope(<<>>, rope.length + other.length, depth + 1,
                      Len(h) + 1, Len(h) + 2))

rebalanceIfNeeded(h, rope) ==
    IF isLeaf(rope) \/ isBalanced(rope)
       \/ abs(h[rope.left].depth - h[rope.right].depth) > balanceFactor
    THEN [h |-> h, v |-> rope]
    ELSE Rebalance(h, rope)

Rebalance(h, rope) ==
    IF isBalanced(rope) THEN [h |-> h, v |-> rope]
    ELSE LET leaves == walk(h, rope)
         IN  merge(h, leaves, 0, Len(leaves))

\* merge appending the left half to the right half
mergeSwapped(h, leaves, start, end) ==
    LET length == end - start
    IN  IF length = 1 THEN [h |-> h, v |-> leaves[start + 1]]
        ELSE IF length = 2
        THEN RopeAppend(h, leaves[start + 1], leaves[start + 2])
        ELSE LET mid == start + length \div 2
                 l == merge(h, leaves, start, mid)
                 r == merge(l.h, leaves, mid, end)
             IN  RopeAppend(r.h, r.v, l.v)

\* leaves[i] of the source is leaves[i + 1] here
merge(h, leaves, start, end) ==
    LET length == end - start
    IN  IF length = 1 THEN [h |-> h, v |-> leaves[start + 1]]
        ELSE IF length = 2
        THEN RopeAppend(h, leaves[start + 1], leaves[start + 2])
        ELSE LET mid == start + length \div 2
                 l == merge(h, leaves, start, mid)
                 r == merge(l.h, leaves, mid, end)
             IN  RopeAppend(r.h, l.v, r.v)

AppendString(h, rope, other) == RopeAppend(h, rope, NewString(other))

\* for i := 0; i < n; i++ { rope = rope.AppendString(other) }
RECURSIVE AppendStrings(_, _, _, _)
AppendStrings(h, rope, other, n) ==
    IF n = 0 THEN [h |-> h, v |-> rope]
    ELSE LET r == AppendString(h, rope, other)
         IN  AppendStrings(r.h, r.v, other, n - 1)

-----------------------------------------------------------------------------
(* Split, Insert, Delete: a slice expression out of range panics           *)

Panicked(h) == [h |-> h, l |-> New, r |-> New, v |-> New, panic |-> TRUE]

RECURSIVE Split(_, _, _)

\* Split that goes into the right child with the offset it was given
SplitNoAdjust(h, rope, at) ==
    IF isLeaf(rope)
    THEN IF at < 0 \/ at > Len(rope.content) THEN Panicked(h)
         ELSE [h |-> h, l |-> NewString(SliceTo(rope.content, at)),
               r |-> NewString(SliceFrom(rope.content, at)), panic |-> FALSE]
    ELSE IF at = 0 THEN [h |-> h, l |-> New, r |-> rope, panic |-> FALSE]
    ELSE IF at = rope.length THEN [h |-> h, l |-> rope, r |-> New, panic |-> FALSE]
    ELSE IF at < h[rope.left].length
    THEN LET s == Split(h, h[rope.left], at)
             a == RopeAppend(s.h, s.r, h[rope.right])
         IN  IF s.panic THEN Panicked(h)
             ELSE [h |-> a.h, l |-> s.l, r |-> a.v, panic |-> FALSE]
    ELSE IF at > h[rope.left].length
    THEN LET s == Split(h, h[rope.right], at)
             a == RopeAppend(s.h, h[rope.left], s.l)
         IN  IF s.panic THEN Panicked(h)
             ELSE [h |-> a.h, l |-> a.v, r |-> s.r, panic |-> FALSE]
    ELSE [h |-> h, l |-> h[rope.left], r |-> h[rope.right], panic |-> FALSE]

\* returns [h, l, r, panic]
Split(h, rope, at) ==
    IF isLeaf(rope)
    THEN IF at < 0 \/ at > Len(rope.content) THEN Panicked(h)
         ELSE [h |-> h, l |-> NewString(SliceTo(rope.content, at)),
               r |-> NewString(SliceFrom(rope.content, at)), panic |-> FALSE]
    ELSE IF at = 0 THEN [h |-> h, l |-> New, r |-> rope, panic |-> FALSE]
    ELSE IF at = rope.length THEN [h |-> h, l |-> rope, r |-> New, panic |-> FALSE]
    ELSE IF at < h[rope.left].length
    THEN LET s == Split(h, h[rope.left], at)
             a == RopeAppend(s.h, s.r, h[rope.right])
         IN  IF s.panic THEN Panicked(h)
             ELSE [h |-> a.h, l |-> s.l, r |-> a.v, panic |-> FALSE]
    ELSE IF at > h[rope.left].length
    THEN LET s == Split(h, h[rope.right], at - h[rope.left].length)
             a == RopeAppend(s.h, h[rope.left], s.l)
         IN  IF s.panic THEN Panicked(h)
             ELSE [h |-> a.h, l |-> a.v, r |-> s.r, panic |-> FALSE]
    ELSE [h |-> h, l |-> h[rope.left], r |-> h[rope.right], panic |-> FALSE]

\* Insert that appends at the front as it does at the end
InsertAtFrontAppends(h, rope, at, other) ==
    IF at = 0 \/ at = rope.length
    THEN LET a == RopeAppend(h, rope, other)
         IN  [h |-> a.h, v |-> a.v, panic |-> FALSE]
    ELSE LET s == Split(h, rope, at)
             a == RopeAppend(s.h, s.l, other)
             b == RopeAppend(a.h, a.v, s.r)
         IN  IF s.panic THEN Panicked(h)
             ELSE [h |-> b.h, v |-> b.v, panic |-> FALSE]

\* returns [h, v, panic]
Insert(h, rope, at, other) ==
    IF at = 0
    THEN LET a == RopeAppend(h, other, rope)
         IN  [h |-> a.h, v |-> a.v, panic |-> FALSE]
    ELSE IF at = rope.length
    THEN LET a == RopeAppend(h, rope, other)
         IN  [h |-> a.h, v |-> a.v, panic |-> FALSE]
    ELSE LET s == Split(h, rope, at)
             a == RopeAppend(s.h, s.l, other)
             b == RopeAppend(a.h, a.v, s.r)
         IN  IF s.panic THEN Panicked(h)
             ELSE [h |-> b.h, v |-> b.v, panic |-> FALSE]

InsertString(h, rope, at, other) == Insert(h, rope, at, NewString(other))

\* Delete that keeps the deleted bytes and drops those after them
DeleteKeepsMiddle(h, rope, offset, length) ==
    IF length = 0 \/ offset = rope.length
    THEN [h |-> h, v |-> rope, panic |-> FALSE]
    ELSE LET s == Split(h, rope, offset)
             t == Split(s.h, s.r, length)
             a == RopeAppend(t.h, s.l, t.l)
         IN  IF s.panic THEN Panicked(h)
             ELSE IF t.panic THEN Panicked(h)
             ELSE [h |-> a.h, v |-> a.v, panic |-> FALSE]

\* returns [h, v, panic]
Delete(h, rope, offset, length) ==
    IF length = 0 \/ offset = rope.length
    THEN [h |-> h, v |-> rope, panic |-> FALSE]
    ELSE LET s == Split(h, rope, offset)
             t == Split(s.h, s.r, length)
             a == RopeAppend(t.h, s.l, t.r)
         IN  IF s.panic THEN Panicked(h)
             ELSE IF t.panic THEN Panicked(h)
             ELSE [h |-> a.h, v |-> a.v, panic |-> FALSE]

-----------------------------------------------------------------------------
(* ReadAt (value receiver), Slice, Equal, Reader.Read                      *)

\* the loop of ReadAt from the state (p, n); returns [n, p, err].  err is
\* "nil", "EOF", "panic" (leaf.content[at:] out of range) or "hang" (an
\* iteration that copies nothing leaves n as it was: the loop never ends)
RECURSIVE ReadAtLoop(_, _, _, _, _)
ReadAtLoop(h, rope, p, o, n) ==
    IF n < Len(p) /\ o + n < Length(rope)
    THEN LET lf == leafForOffset(h, rope, o + n)
             content == lf.leaf.content
             copied == Min(Len(p) - n, Len(content) - lf.at)
         IN  IF lf.at < 0 \/ lf.at > Len(content)
             THEN [n |-> n, p |-> p, err |-> "panic"]
             ELSE IF copied = 0 THEN [n |-> n, p |-> p, err |-> "hang"]
             ELSE ReadAtLoop(h, rope,
                      SliceTo(p, n) \o SubSeq(content, lf.at + 1, lf.at + copied)
                          \o SliceFrom(p, n + copied),
                      o, n + copied)
    ELSE [n |-> n, p |-> p, err |-> IF n < Len(p) THEN "EOF" ELSE "nil"]

ReadAt(h, rope, p, off) == ReadAtLoop(h, rope, p, off, 0)

\* the loop of the ReadAt of rope_reader.go from the state (p, n): its guard
\* compares n with the length and it looks up the leaf of off in every
\* iteration; returns [n, p, err] as ReadAtLoop does
RECURSIVE PointerReadAtLoop(_, _, _, _, _)
PointerReadAtLoop(h, rope, p, off, n) ==
    IF n < Len(p) /\ n < Length(rope)
    THEN LET lf == leafForOffset(h, rope, off)
             content == lf.leaf.content
             copied == Min(Len(p) - n, Len(content) - lf.at)
         IN  IF lf.at < 0 \/ lf.at > Len(content)
             THEN [n |-> n, p |-> p, err |-> "panic"]
             ELSE IF copied = 0 THEN [n |-> n, p |-> p, err |-> "hang"]
             ELSE PointerReadAtLoop(h, rope,
                      SliceTo(p, n) \o SubSeq(content, lf.at + 1, lf.at + copied)
                          \o SliceFrom(p, n + copied),
                      off, n + copied)
    ELSE [n |-> n, p |-> p, err |-> IF n < Len(p) THEN "EOF" ELSE "nil"]

\* the ReadAt of rope_reader.go (pointer receiver)
PointerReadAt(h, rope, p, off) == PointerReadAtLoop(h, rope, p, off, 0)

\* returns [p, panic]: make([]byte, b-a) panics for b < a
Slice(h, rope, a, b) ==
    IF b - a < 0 THEN [p |-> <<>>, panic |-> TRUE]
    ELSE LET r == ReadAt(h, rope, Zeros(b - a), a)
         IN  [p |-> r.p, panic |-> r.err \in {"panic", "hang"}]

\* the loop of Equal leaving after its first iteration
EqualLoopOnce(h, rope, other, i) ==
    IF i < rope.length
    THEN Slice(h, rope, i, i + maxLeafSize).p = Slice(h, other, i, i + maxLeafSize).p
    ELSE TRUE

\* the loop of Equal from i on
RECURSIVE EqualLoop(_, _, _, _)
EqualLoop(h, rope, other, i) ==
    IF i < rope.length
    THEN IF Slice(h, rope, i, i + maxLeafSize).p # Slice(h, other, i, i + maxLeafSize).p
         THEN FALSE
         ELSE EqualLoop(h, rope, other, i + maxLeafSize)
    ELSE TRUE

Equal(h, rope, other) ==
    IF rope = other THEN TRUE
    ELSE IF rope.length # other.length THEN FALSE
    ELSE EqualLoop(h, rope, other, 0)

\* rope.Reader()
Reader(rope) == [rope |-> rope, position |-> 0]

\* Read that advances the position whatever the error
ReadAlwaysAdvances(h, rd, p) ==
    LET r == ReadAt(h, rd.rope, p, rd.position)
    IN  [reader |-> [rd EXCEPT !.position = rd.position + r.n],
         n |-> r.n, p |-> r.p, err |-> r.err]

\* Read that leaves the position where it is
ReadNeverAdvances(h, rd, p) ==
    LET r == ReadAt(h, rd.rope, p, rd.position)
    IN  [reader |-> rd, n |-> r.n, p |-> r.p, err |-> r.err]

\* Reader.Read: returns [reader, n, p, err]
Read(h, rd, p) ==
    LET r == ReadAt(h, rd.rope, p, rd.position)
    IN  [reader |-> IF r.err = "nil"
                    THEN [rd EXCEPT !.position = rd.position + r.n]
                    ELSE rd,
         n |-> r.n, p |-> r.p, err |-> r.err]

-----------------------------------------------------------------------------
(* The caller's inputs                                                     *)

\* a long string of n bytes whose bytes tell their position
LongString(n) == [i \in 1..n |-> 1 + (i % 251)]

ShortStrings == {<<>>, <<97, 98>>, <<99>>}

\* one string just under maxLeafSize, and those over it
LongStrings ==
    {LongString(maxLeafSize - 1)} \cup {LongString(maxLeafSize + k) : k \in 1..MaxOver}

Strings == ShortStrings \cup LongStrings

\* the few strings of the specification of all operations
\* one string of each kind
SomeStrings ==
    {<<>>, <<97, 98>>, LongString(maxLeafSize - 1),
     LongString(maxLeafSize + MaxOver)}

FewStrings == {<<97, 98>>, LongString(maxLeafSize - 1)}

\* the offsets worth trying in a rope: its ends, next to its ends, and the
\* seam of a concat node and next to it
Positions(h, rope) ==
    ({0, 1, rope.length - 1, rope.length}
        \cup (IF isLeaf(rope) THEN {}
              ELSE {h[rope.left].length - 1, h[rope.left].length,
                    h[rope.left].length + 1}))
    \cap (0..rope.length)

\* and the offsets out of range
AnyPositions(h, rope) == Positions(h, rope) \cup {-1, rope.length + 1}

FewPositions(h, rope) == {1} \cap (0..rope.length)

\* (offset, length) for Delete: in range, and out of range
Ranges(h, rope) ==
    {<<offset, length>> \in
        AnyPositions(h, rope) \X {-1, 0, 1, 2, rope.length - 1, rope.length} :
            length <= rope.length - offset + 1}

FewRanges(h, rope) == {<<1, 1>>} \cap ((0..rope.length) \X (0..(rope.length - 1)))

\* [a, b) for Slice, with a <= b
Bounds(h, rope) ==
    {<<a, b>> \in
        (Positions(h, rope) \cup {rope.length + 1})
            \X {0, 1, 2, rope.length - 1, rope.length, rope.length + 1,
                rope.length + 2} : a <= b}

FewBounds(h, rope) == {<<0, rope.length>>}

\* (off, len(p)) for ReadAt
Requests(h, rope) ==
    (Positions(h, rope) \cup {rope.length + 1})
        \X ({0, 1, 2, rope.length - 1, rope.length, rope.length + 1}
                \cap (0..(rope.length + 1)))

FewRequests(h, rope) == {<<0, rope.length>>}

\* (off, len(p)) for the ReadAt of rope_reader.go: its loop may go round once
\* for every byte of p, so p is short
PointerRequests(h, rope) == Positions(h, rope) \X (0..MaxBuf)

\* the string appended over and over, and how often: past maxDepth
ChainStrings == {<<99>>}

ChainLength == maxDepth + 4

\* how often a loop appends: until the chain is unbalanced, and further
LoopCounts == {2 * balanceFactor + 2, 3 * balanceFactor}

\* s with its byte at index i (from 1) changed
Changed(s, i) == [s EXCEPT ![i] = (s[i] + 1) % 256]

\* a fresh leaf of the bytes of rope
Copy(h, rope) == {NewString(String(h, rope))}

\* the ropes to compare a rope with: a fresh leaf of the same bytes, and
\* fresh leaves that differ from it in one byte
Others(h, rope) ==
    LET s == String(h, rope)
    IN  {NewString(s)}
            \cup {NewString(Changed(s, i)) : i \in {1, Len(s)} \cap DOMAIN s}

-----------------------------------------------------------------------------
(* The record of the last public call                                      *)

NoCall ==
    [op |-> "none", rope |-> New, other |-> New, a |-> 0, b |-> 0,
     out |-> <<>>, bytes |-> <<>>, n |-> 0, err |-> "nil", ok |-> TRUE]

BuildOps ==
    {"none", "New", "NewString", "Append", "AppendString", "Insert",
     "InsertString", "Delete", "Split", "Rebalance", "Literal"}

\* The caller builds its ropes first and makes its read-only calls last; a
\* panic ends the program.
Building == last.op \in BuildOps /\ last.err = "nil"

\* the ropes the caller goes on with: those the last call returned
Current == {last.out[i] : i \in DOMAIN last.out}

\* all the ropes the caller holds
Held == {ropes[i] : i \in DOMAIN ropes}

Init ==
    /\ heap = <<>>
    /\ ropes = <<>>
    /\ last = NoCall
    /\ reader = Reader(New)
    /\ buf = <<>>

\* a call that returned the ropes out, leaving the heap h
Returned(h, out, call) ==
    /\ heap' = h
    /\ ropes' = ropes \o out
    /\ last' = [call EXCEPT !.out = out]
    /\ UNCHANGED <<reader, buf>>

\* a call that panicked: the caller got nothing
Panics(call) ==
    /\ last' = [call EXCEPT !.err = "panic"]
    /\ UNCHANGED <<heap, ropes, reader, buf>>

\* a read-only call: nothing but its record changes
Observed(call) ==
    /\ last' = call
    /\ UNCHANGED <<heap, ropes, reader, buf>>

-----------------------------------------------------------------------------
(* The public calls; all = TRUE draws every input, FALSE a few             *)

CallNew ==
    /\ Building
    /\ Returned(heap, <<New>>, [NoCall EXCEPT !.op = "New"])

NewStringOf(S) ==
    /\ Building
    /\ \E s \in S \ {<<>>} :
        Returned(heap, <<NewString(s)>>,
                 [NoCall EXCEPT !.op = "NewString", !.bytes = s])

CallAppend ==
    /\ Building
    /\ \E rope \in Current, other \in Held :
        LET r == RopeAppend(heap, rope, other)
        IN  Returned(r.h, <<r.v>>,
                     [NoCall EXCEPT !.op = "Append", !.rope = rope,
                                    !.other = other])

AppendStringOf(S) ==
    /\ Building
    /\ \E rope \in Current, s \in S :
        LET r == AppendString(heap, rope, s)
        IN  Returned(r.h, <<r.v>>,
                     [NoCall EXCEPT !.op = "AppendString", !.rope = rope,
                                    !.other = NewString(s)])

InsertAt(all) ==
    /\ Building
    /\ \E rope \in Current, other \in Held :
        \E at \in (IF all THEN AnyPositions(heap, rope) ELSE FewPositions(heap, rope)) :
            LET r == Insert(heap, rope, at, other)
                call == [NoCall EXCEPT !.op = "Insert", !.rope = rope,
                                       !.other = other, !.a = at]
            IN  IF r.panic THEN Panics(call) ELSE Returned(r.h, <<r.v>>, call)

InsertStringAt(all, S) ==
    /\ Building
    /\ \E rope \in Current, s \in S :
        \E at \in (IF all THEN AnyPositions(heap, rope) ELSE FewPositions(heap, rope)) :
            LET r == InsertString(heap, rope, at, s)
                call == [NoCall EXCEPT !.op = "InsertString", !.rope = rope,
                                       !.other = NewString(s), !.a = at]
            IN  IF r.panic THEN Panics(call) ELSE Returned(r.h, <<r.v>>, call)

DeleteAt(all) ==
    /\ Building
    /\ \E rope \in Current :
        \E range \in (IF all THEN Ranges(heap, rope) ELSE FewRanges(heap, rope)) :
            LET r == Delete(heap, rope, range[1], range[2])
                call == [NoCall EXCEPT !.op = "Delete", !.rope = rope,
                                       !.a = range[1], !.b = range[2]]
            IN  IF r.panic THEN Panics(call) ELSE Returned(r.h, <<r.v>>, call)

SplitAt(all) ==
    /\ Building
    /\ \E rope \in Current :
        \E at \in (IF all THEN AnyPositions(heap, rope) ELSE FewPositions(heap, rope)) :
            LET r == Split(heap, rope, at)
                call == [NoCall EXCEPT !.op = "Split", !.rope = rope, !.a = at]
            IN  IF r.panic THEN Panics(call) ELSE Returned(r.h, <<r.l, r.r>>, call)

CallRebalance ==
    /\ Building
    /\ \E rope \in Current :
        LET r == Rebalance(heap, rope)
        IN  Returned(r.h, <<r.v>>,
                     [NoCall EXCEPT !.op = "Rebalance", !.rope = rope])

SliceAt(all) ==
    /\ Building
    /\ \E rope \in Current :
        \E range \in (IF all THEN Bounds(heap, rope) ELSE FewBounds(heap, rope)) :
            LET r == Slice(heap, rope, range[1], range[2])
            IN  Observed([NoCall EXCEPT !.op = "Slice", !.rope = rope,
                              !.a = range[1], !.b = range[2], !.bytes = r.p,
                              !.err = IF r.panic THEN "panic" ELSE "nil"])

EqualTo(all) ==
    /\ Building
    /\ \E rope \in Current :
        \E other \in Held \cup (IF all THEN Others(heap, rope) ELSE Copy(heap, rope)) :
            Observed([NoCall EXCEPT !.op = "Equal", !.rope = rope,
                          !.other = other, !.ok = Equal(heap, rope, other)])

ReadAtAt(all) ==
    /\ Building
    /\ \E rope \in Current :
        \E request \in (IF all THEN Requests(heap, rope) ELSE FewRequests(heap, rope)) :
            LET r == ReadAt(heap, rope, Zeros(request[2]), request[1])
            IN  Observed([NoCall EXCEPT !.op = "ReadAt", !.rope = rope,
                              !.a = request[1], !.b = request[2],
                              !.bytes = r.p, !.n = r.n, !.err = r.err])

\* one round of a caller that reads the rope through its Reader until the
\* first error: n, err := reader.Read(p), and the n bytes read are appended
\* to those collected so far, kept in last.bytes
CallStreamRead ==
    /\ last.op \in {"Reader", "StreamRead"}
    /\ last.err = "nil"
    /\ LET r == Read(heap, reader, buf)
       IN  /\ reader' = r.reader
           /\ buf' = r.p
           /\ last' = [NoCall EXCEPT !.op = "StreamRead", !.rope = reader.rope,
                           !.a = reader.position, !.b = Len(buf),
                           !.bytes = last.bytes \o SliceTo(r.p, r.n),
                           !.n = r.n, !.err = r.err]
    /\ UNCHANGED <<heap, ropes>>

\* the loop of TestBigString: rope = rope.AppendString(s), n times; the
\* caller keeps the last rope, and the last call is the n-th AppendString
CallAppendStrings ==
    /\ Building
    /\ \E rope \in Current, s \in ChainStrings, n \in LoopCounts :
        LET r == AppendStrings(heap, rope, s, n - 1)
            f == AppendString(r.h, r.v, s)
        IN  Returned(f.h, <<f.v>>,
                     [NoCall EXCEPT !.op = "AppendString", !.rope = r.v,
                                    !.other = NewString(s)])

\* n, err := rope.ReadAt(p, off) of rope_reader.go
CallPointerReadAt ==
    /\ Building
    /\ \E rope \in Current :
        \E request \in PointerRequests(heap, rope) :
            LET r == PointerReadAt(heap, rope, Zeros(request[2]), request[1])
            IN  Observed([NoCall EXCEPT !.op = "PointerReadAt", !.rope = rope,
                              !.a = request[1], !.b = request[2],
                              !.bytes = r.p, !.n = r.n, !.err = r.err])

\* the struct literal of TestBalance: a concat node written by hand over the
\* rope, with an empty right leaf, the length of the rope and one more level
CallLiteral ==
    /\ Building
    /\ \E rope \in Current :
        Returned(heap \o <<rope, New>>,
                 <<Rope(<<>>, rope.length, rope.depth + 1,
                        Len(heap) + 1, Len(heap) + 2)>>,
                 [NoCall EXCEPT !.op = "Literal", !.rope = rope])

\* reader := rope.Reader(); p := make([]byte, k), for a k with which
\* MaxReads reads reach the end of the rope
CallReader ==
    /\ Building
    /\ \E rope \in Current :
        \E k \in {1, 2, maxLeafSize} :
            /\ rope.length <= k * MaxReads
            /\ reader' = Reader(rope)
            /\ buf' = Zeros(k)
            /\ last' = [NoCall EXCEPT !.op = "Reader", !.rope = rope, !.b = k]
            /\ UNCHANGED <<heap, ropes>>

\* n, err := reader.Read(p)
CallRead ==
    /\ last.op \in {"Reader", "Read"}
    /\ LET r == Read(heap, reader, buf)
       IN  /\ reader' = r.reader
           /\ buf' = r.p
           /\ last' = [NoCall EXCEPT !.op = "Read", !.rope = reader.rope,
                           !.a = reader.position, !.b = Len(buf),
                           !.bytes = r.p, !.n = r.n, !.err = r.err]
    /\ UNCHANGED <<heap, ropes>>

-----------------------------------------------------------------------------
(* Specifications                                                          *)

\* the caller may obtain more ropes
Room == Len(ropes) < MaxRopes

\* the caller may make one more call
LastRoom == Len(ropes) <= MaxRopes

\* the last call built a rope from strings or from ropes built so
Assembled == last.op \in {"New", "NewString", "Append", "AppendString"}

\* every public operation, each with few inputs
Next ==
    \/ Room /\ CallNew
    \/ Room /\ NewStringOf(FewStrings)
    \/ Room /\ CallAppend
    \/ Room /\ AppendStringOf(FewStrings)
    \/ Room /\ InsertAt(FALSE)
    \/ Room /\ InsertStringAt(FALSE, FewStrings)
    \/ Room /\ DeleteAt(FALSE)
    \/ Room /\ SplitAt(FALSE)
    \/ Room /\ CallRebalance
    \/ Room /\ SliceAt(FALSE)
    \/ Room /\ EqualTo(FALSE)
    \/ Room /\ ReadAtAt(FALSE)
    \/ Room /\ CallReader
    \/ CallRead

Spec == Init /\ [][Next]_vars

\* Split, with all its inputs, of ropes built from strings
NextSplit ==
    \/ Room /\ CallNew
    \/ Room /\ NewStringOf(Strings)
    \/ Room /\ AppendStringOf(Strings)
    \/ Room /\ CallAppend
    \/ LastRoom /\ SplitAt(TRUE)

SpecSplit == Init /\ [][NextSplit]_vars

\* Append and AppendString, with all their inputs
NextAppend ==
    \/ Room /\ CallNew
    \/ Room /\ NewStringOf(Strings)
    \/ Room /\ AppendStringOf(Strings)
    \/ Room /\ CallAppend

SpecAppend == Init /\ [][NextAppend]_vars

\* Insert and InsertString, with all their inputs, of ropes built from strings
NextInsert ==
    \/ Room /\ CallNew
    \/ Room /\ NewStringOf(SomeStrings)
    \/ Room /\ AppendStringOf(SomeStrings)
    \/ LastRoom /\ Assembled /\ InsertAt(TRUE)
    \/ LastRoom /\ Assembled /\ InsertStringAt(TRUE, {<<>>, <<99>>})

SpecInsert == Init /\ [][NextInsert]_vars

\* Delete, with all its inputs, of ropes built from strings
NextDelete ==
    \/ Room /\ CallNew
    \/ Room /\ NewStringOf(SomeStrings)
    \/ Room /\ AppendStringOf(SomeStrings)
    \/ LastRoom /\ Assembled /\ DeleteAt(TRUE)

SpecDelete == Init /\ [][NextDelete]_vars

\* Slice, with all its inputs, of ropes built from strings
NextSlice ==
    \/ Room /\ CallNew
    \/ Room /\ NewStringOf(Strings)
    \/ Room /\ AppendStringOf(Strings)
    \/ LastRoom /\ SliceAt(TRUE)

SpecSlice == Init /\ [][NextSlice]_vars

\* Equal, with ropes of the same and of other bytes, of ropes built from
\* strings
NextEqual ==
    \/ Room /\ CallNew
    \/ Room /\ NewStringOf(Strings)
    \/ Room /\ AppendStringOf(Strings)
    \/ Room /\ CallAppend
    \/ LastRoom /\ EqualTo(TRUE)

SpecEqual == Init /\ [][NextEqual]_vars

\* ReadAt, with all its inputs, of ropes built from strings
NextReadAt ==
    \/ Room /\ CallNew
    \/ Room /\ NewStringOf(SomeStrings)
    \/ Room /\ AppendStringOf(SomeStrings)
    \/ LastRoom /\ ReadAtAt(TRUE)

SpecReadAt == Init /\ [][NextReadAt]_vars

\* a Reader read to its end and beyond, over ropes built from strings
NextReader ==
    \/ Room /\ CallNew
    \/ Room /\ NewStringOf(Strings)
    \/ Room /\ AppendStringOf(Strings)
    \/ LastRoom /\ CallReader
    \/ CallRead

SpecReader == Init /\ [][NextReader]_vars

\* rope = rope.AppendString(s) over and over, from each string
NextChain ==
    \/ ropes = <<>> /\ NewStringOf(Strings)
    \/ Len(ropes) < ChainLength /\ AppendStringOf(ChainStrings)

SpecChain == Init /\ [][NextChain]_vars

\* the ReadAt of rope_reader.go, with short buffers, of ropes built from
\* strings
NextPointerReadAt ==
    \/ Room /\ CallNew
    \/ Room /\ NewStringOf(SomeStrings)
    \/ Room /\ AppendStringOf(SomeStrings)
    \/ LastRoom /\ CallPointerReadAt

SpecPointerReadAt == Init /\ [][NextPointerReadAt]_vars

\* a caller that reads a rope built from strings through a fresh Reader,
\* with one buffer, until the first error; a caller in its loop goes on
NextStream ==
    \/ Room /\ CallNew
    \/ Room /\ NewStringOf(FewStrings)
    \/ Room /\ AppendStringOf(FewStrings)
    \/ LastRoom /\ CallReader
    \/ CallStreamRead

SpecStream == Init /\ [][NextStream]_vars /\ WF_vars(CallStreamRead)

\* every operation that returns ropes: Split with all its inputs, Rebalance
\* of the chains that loops of appends make
NextWellFormed ==
    \/ Room /\ CallNew
    \/ Room /\ NewStringOf(SomeStrings)
    \/ Room /\ AppendStringOf(SomeStrings)
    \/ Room /\ CallAppend
    \/ Room /\ CallAppendStrings
    \/ Room /\ CallRebalance
    \/ Room /\ InsertAt(FALSE)
    \/ Room /\ InsertStringAt(FALSE, FewStrings)
    \/ Room /\ DeleteAt(FALSE)
    \/ LastRoom /\ SplitAt(TRUE)

SpecWellFormed == Init /\ [][NextWellFormed]_vars

\* Rebalance of the chains that appends make and of the chains written by
\* hand
NextRebalance ==
    \/ ropes = <<>> /\ NewStringOf(Strings)
    \/ /\ last.op \in {"NewString", "AppendString"}
       /\ Len(ropes) < ChainLength
       /\ AppendStringOf(ChainStrings)
    \/ /\ last.op \in {"NewString", "Literal"}
       /\ Len(ropes) < ChainLength
       /\ CallLiteral
    \/ last.op # "Rebalance" /\ CallRebalance

SpecRebalance == Init /\ [][NextRebalance]_vars

-----------------------------------------------------------------------------
(* Properties                                                              *)

\* a rope unfolded: its fields, and those of the nodes below it
RECURSIVE Tree(_, _)
Tree(h, rope) ==
    IF isLeaf(rope) THEN <<rope.content, rope.length, rope.depth>>
    ELSE <<rope.length, rope.depth, Tree(h, h[rope.left]), Tree(h, h[rope.right])>>

\* the last call, on rope, got arguments in range
ValidAt == 0 <= last.a /\ last.a <= Length(last.rope)

\* C1: no call changes a rope the caller already holds: every rope obtained
\* before the call keeps its fields, its tree and its bytes, whatever the
\* call allocates.
Persistence ==
    [][\A i \in DOMAIN ropes :
           /\ i \in DOMAIN ropes'
           /\ ropes'[i] = ropes[i]
           /\ Tree(heap', ropes[i]) = Tree(heap, ropes[i])
           /\ String(heap', ropes[i]) = String(heap, ropes[i])]_vars

\* a call on a concat rope has returned another concat rope, and the caller
\* holds both
PersistenceWitness ==
    /\ last.op \in {"AppendString", "InsertString", "Delete"}
    /\ last.err = "nil"
    /\ ~isLeaf(last.rope)
    /\ ~isLeaf(last.out[1])
    /\ last.out[1] # last.rope
    /\ last.rope \in Held

\* C2: the rope Append returns holds the bytes of the receiver followed by
\* those of the argument, and its length is the sum of their lengths.
AppendConcatenates ==
    last.op \in {"Append", "AppendString"} =>
        /\ String(heap, last.out[1])
               = String(heap, last.rope) \o String(heap, last.other)
        /\ Length(last.out[1]) = Length(last.rope) + Length(last.other)

\* two non-empty ropes of more than a leaf's bytes together were appended
AppendWitness ==
    /\ last.op \in {"Append", "AppendString"}
    /\ Length(last.rope) > 0
    /\ Length(last.other) > 0
    /\ Length(last.out[1]) > maxLeafSize

\* C3: Split at an offset in 0..Length returns two ropes, the first of the
\* first at bytes and the second of the rest: their lengths add up to the
\* length of the rope and their bytes, one after the other, are its bytes.
SplitPartitions ==
    last.op = "Split" /\ ValidAt =>
        /\ last.err = "nil"
        /\ Length(last.out[1]) = last.a
        /\ Length(last.out[1]) + Length(last.out[2]) = Length(last.rope)
        /\ String(heap, last.out[1]) = SliceTo(String(heap, last.rope), last.a)
        /\ String(heap, last.out[2]) = SliceFrom(String(heap, last.rope), last.a)

\* a concat rope was split inside its right child
SplitWitness ==
    /\ last.op = "Split"
    /\ ~isLeaf(last.rope)
    /\ last.a > heap[last.rope.left].length
    /\ last.a < Length(last.rope)
    /\ last.err = "nil"

\* C4: Insert at an offset in 0..Length returns the rope of the bytes before
\* the offset, the bytes of the argument, and the bytes from the offset on.
InsertSplices ==
    last.op \in {"Insert", "InsertString"} /\ ValidAt =>
        /\ last.err = "nil"
        /\ String(heap, last.out[1])
               = SliceTo(String(heap, last.rope), last.a)
                     \o String(heap, last.other)
                     \o SliceFrom(String(heap, last.rope), last.a)
        /\ Length(last.out[1]) = Length(last.rope) + Length(last.other)

\* bytes were inserted at the front of a rope
InsertWitness ==
    /\ last.op \in {"Insert", "InsertString"}
    /\ last.a = 0
    /\ Length(last.rope) > 0
    /\ Length(last.other) > 0
    /\ last.err = "nil"

\* C5: Delete of length bytes from offset, with 0 <= offset, 0 <= length and
\* offset + length <= Length, returns the rope without the bytes
\* [offset, offset + length), which is length bytes shorter.
DeleteRemoves ==
    last.op = "Delete" /\ ValidAt /\ 0 <= last.b
        /\ last.a + last.b <= Length(last.rope) =>
            /\ last.err = "nil"
            /\ String(heap, last.out[1])
                   = SliceTo(String(heap, last.rope), last.a)
                         \o SliceFrom(String(heap, last.rope), last.a + last.b)
            /\ Length(last.out[1]) = Length(last.rope) - last.b

\* bytes were deleted from inside a concat rope, with bytes left after them
DeleteWitness ==
    /\ last.op = "Delete"
    /\ ~isLeaf(last.rope)
    /\ last.a > 0
    /\ last.b > 0
    /\ last.a + last.b < Length(last.rope)
    /\ last.err = "nil"

\* C6: Slice(a, b) returns the bytes [a, min(b, Length)) of the rope: an end
\* beyond the rope is clamped to its length.
SliceClamps ==
    last.op = "Slice" /\ 0 <= last.a /\ last.a <= last.b =>
        /\ last.err = "nil"
        /\ last.bytes
               = SubSeq(String(heap, last.rope), last.a + 1,
                        Min(last.b, Length(last.rope)))

\* C7: Equal is true exactly when the two ropes hold the same bytes,
\* whatever the shapes of their trees.
EqualIsByteEquality ==
    last.op = "Equal" =>
        (last.ok <=> String(heap, last.rope) = String(heap, last.other))

\* a concat rope was found equal to a leaf
EqualWitness ==
    /\ last.op = "Equal"
    /\ ~isLeaf(last.rope)
    /\ isLeaf(last.other)
    /\ last.ok

\* C8: ReadAt(p, off) with off >= 0 copies n = min(len(p), max(0, Length -
\* off)) bytes, the bytes of the rope from off, into the front of p, and its
\* error is EOF exactly when n < len(p), and nil otherwise.
ReadAtContract ==
    last.op = "ReadAt" /\ last.a >= 0 =>
        /\ last.n = Min(last.b, Max(0, Length(last.rope) - last.a))
        /\ SliceTo(last.bytes, last.n)
               = SubSeq(String(heap, last.rope), last.a + 1, last.a + last.n)
        /\ Len(last.bytes) = last.b
        /\ last.err = (IF last.n < last.b THEN "EOF" ELSE "nil")

\* a read began in the left child of a concat rope and ended in its right
ReadAtWitness ==
    /\ last.op = "ReadAt"
    /\ ~isLeaf(last.rope)
    /\ last.a < heap[last.rope.left].length
    /\ last.a + last.n > heap[last.rope.left].length

\* C9: Read reads at the reader's offset, and moves the offset on by the
\* bytes read when it returns no error and leaves it alone when it returns
\* one; a Read after one that returned EOF returns what that one returned.
ReadAdvances ==
    [][last'.op = "Read" =>
           /\ last'.n = Min(Len(buf), Max(0, Length(reader.rope) - reader.position))
           /\ SliceTo(buf', last'.n)
                  = SubSeq(String(heap, reader.rope), reader.position + 1,
                           reader.position + last'.n)
           /\ last'.err = "nil" => reader'.position = reader.position + last'.n
           /\ last'.err # "nil" => reader'.position = reader.position
           /\ last.op = "Read" /\ last.err = "EOF" =>
                  /\ last'.n = last.n
                  /\ last'.err = last.err
                  /\ buf' = buf]_vars

\* a Read returned bytes and EOF, and the offset is where it was
ReadWitness ==
    /\ last.op = "Read"
    /\ last.err = "EOF"
    /\ last.n > 0
    /\ reader.position = last.a

\* C10: every rope a call returned is balanced or no deeper than maxDepth.
BalancedOrShallow ==
    \A i \in DOMAIN ropes : isBalanced(ropes[i]) \/ ropes[i].depth <= maxDepth

\* C11: Append of two balanced ropes returns a balanced rope.
AppendKeepsBalance ==
    last.op \in {"Append", "AppendString"}
        /\ isBalanced(last.rope) /\ isBalanced(last.other) =>
            isBalanced(last.out[1])

\* C12: Rebalance returns a balanced rope of the bytes and of the length of
\* its receiver, and returns a balanced receiver as it is.
RebalanceBalances ==
    last.op = "Rebalance" =>
        /\ last.err = "nil"
        /\ isBalanced(last.out[1])
        /\ String(heap, last.out[1]) = String(heap, last.rope)
        /\ Length(last.out[1]) = Length(last.rope)
        /\ isBalanced(last.rope) => last.out[1] = last.rope

\* an unbalanced chain made by appends was rebuilt into a concat rope
RebalanceWitness ==
    /\ last.op = "Rebalance"
    /\ ~isBalanced(last.rope)
    /\ Length(heap[last.rope.right]) > 0
    /\ ~isLeaf(last.out[1])
    /\ isBalanced(last.out[1])

\* an unbalanced chain written by hand, with empty right leaves, was rebuilt
RebalanceLiteralWitness ==
    /\ last.op = "Rebalance"
    /\ ~isBalanced(last.rope)
    /\ Length(heap[last.rope.right]) = 0
    /\ isBalanced(last.out[1])

\* the last call, a Delete, got an offset or a length out of range
DeleteOutOfRange ==
    \/ last.a < 0
    \/ last.a > Length(last.rope)
    \/ last.b < 0
    \/ last.a + last.b > Length(last.rope)

\* C13: Delete with an offset or a length out of range fails and returns no
\* rope.
DeleteRejects ==
    last.op = "Delete" /\ DeleteOutOfRange =>
        /\ last.err = "panic"
        /\ last.out = <<>>

\* the last call, a ReadAt, asked for bytes beyond the leaf that holds off
SpansLeaves ==
    /\ 0 <= last.a
    /\ last.a < Length(last.rope)
    /\ LET lf == leafForOffset(heap, last.rope, last.a)
       IN  Len(lf.leaf.content) - lf.at
               < Min(last.b, Length(last.rope) - last.a)

\* C14: the ReadAt of rope_reader.go, on a rope of more than one leaf, ends
\* and fills p with the bytes of the rope from off on when the request spans
\* leaves, and ends when off is the length of the rope.
PointerReadAtFills ==
    last.op = "PointerReadAt" /\ ~isLeaf(last.rope)
        /\ (SpansLeaves \/ last.a = Length(last.rope)) =>
            /\ last.err \in {"nil", "EOF"}
            /\ last.n = Min(last.b, Length(last.rope) - last.a)
            /\ SliceTo(last.bytes, last.n)
                   = SubSeq(String(heap, last.rope), last.a + 1, last.a + last.n)

\* C15: every leaf of every rope that Append, Insert, Delete, Split or
\* Rebalance returned holds at most maxLeafSize bytes.
LeavesFit ==
    last.op \in {"Append", "AppendString", "Insert", "InsertString", "Delete",
                 "Split", "Rebalance"} =>
        \A i \in DOMAIN last.out :
            LET leaves == walk(heap, last.out[i])
            IN  \A j \in DOMAIN leaves : Len(leaves[j].content) <= maxLeafSize

\* a rope whose nodes are as the constructors make them: a leaf of depth 0
\* and of the length of its content, a concat node of two non-empty children,
\* of their lengths together and one level above the deeper of them
RECURSIVE WellFormed(_, _)
WellFormed(h, rope) ==
    IF isLeaf(rope)
    THEN rope.depth = 0 /\ rope.length = Len(rope.content)
    ELSE /\ rope.left \in DOMAIN h
         /\ rope.right \in DOMAIN h
         /\ h[rope.left].length > 0
         /\ h[rope.right].length > 0
         /\ rope.length = h[rope.left].length + h[rope.right].length
         /\ rope.depth = 1 + Max(h[rope.left].depth, h[rope.right].depth)
         /\ WellFormed(h, h[rope.left])
         /\ WellFormed(h, h[rope.right])

\* C16: every rope the public operations returned is well formed: no concat
\* node has an empty child, a length other than the sum of its children's or
\* a depth other than one more than the deeper child's, and every leaf has
\* depth 0 and the length of its content.
AllWellFormed == \A i \in DOMAIN ropes : WellFormed(heap, ropes[i])

\* a concat rope was split at its seam into its two children
WellFormedWitness ==
    /\ last.op = "Split"
    /\ ~isLeaf(last.rope)
    /\ last.a = heap[last.rope.left].length
    /\ last.out = <<heap[last.rope.left], heap[last.rope.right]>>

\* an unbalanced chain of appends was rebuilt by Rebalance
WellFormedRebuilt ==
    /\ last.op = "Rebalance"
    /\ ~isBalanced(last.rope)
    /\ last.out[1] # last.rope

\* the caller has stopped, at an end of input, with all the bytes of the rope
StreamDone ==
    /\ last.op = "StreamRead"
    /\ last.err = "EOF"
    /\ last.bytes = String(heap, reader.rope)

\* C17: a caller that reads a rope through a fresh Reader with a buffer of
\* k >= 1 bytes until the first error stops after finitely many reads with
\* exactly the bytes of the rope; until then what it has collected is the
\* front of the rope, and the offset never goes back nor beyond the length.
StreamRoundTrip ==
    /\ [](last.op = "StreamRead" =>
            /\ last.bytes = SliceTo(String(heap, reader.rope), Len(last.bytes))
            /\ reader.position <= Length(reader.rope))
    /\ [][last'.op = "StreamRead" => reader'.position >= reader.position]_vars
    /\ (last.op = "Reader") ~> StreamDone

\* a rope of more than one leaf was read to its end in more than one read
StreamWitness ==
    /\ StreamDone
    /\ ~isLeaf(reader.rope)
    /\ reader.position > 0
    /\ last.n > 0

====
